---- MODULE Spec2Model ----
(***************************************************************************)
(* A model of src/resp.rs of redis-async-rs: the RESP value type, the      *)
(* FromResp conversions, the RespCodec encoder and the RespCodec decoder.  *)
(*                                                                         *)
(* Bytes are naturals 0..255; a buffer (BytesMut), a Vec<u8> and a String  *)
(* (its UTF-8 bytes) are sequences of bytes.  Positions are 0-based as in  *)
(* the source: buf[pos] of the source is At(buf, pos) here and             *)
(* buf[a..b] is Slice(buf, a, b).                                          *)
(***************************************************************************)
EXTENDS Integers, Sequences, FiniteSets, TLC

(***************************************************************************)
(* Bytes named by the source.                                              *)
(***************************************************************************)
CR == 13
LF == 10
DOLLAR == 36
STAR == 42
COLON == 58
PLUS == 43
MINUS == 45
DIGIT0 == 48
DIGIT9 == 57

(***************************************************************************)
(* usize.  The width is scaled down so that tokens beyond the machine      *)
(* range are short; every overflow rule below is written for a width of    *)
(* UsizeBits bits.                                                         *)
(***************************************************************************)
UsizeBits == 8
UsizeModulus == 2 ^ UsizeBits
UsizeMax == UsizeModulus - 1

At(buf, pos) == buf[pos + 1]
Slice(buf, a, b) == SubSeq(buf, a + 1, b)

(***************************************************************************)
(* RespValue: one record shape for the five variants (unused fields hold   *)
(* their empty value), plus NoValue for Option::None.                      *)
(***************************************************************************)
RV(tag, bytes, int, elems) ==
    [tag |-> tag, bytes |-> bytes, int |-> int, elems |-> elems]
Array(elems) == RV("Array", <<>>, 0, elems)
BulkString(bytes) == RV("BulkString", bytes, 0, <<>>)
Error(string) == RV("Error", string, 0, <<>>)
Integer(int) == RV("Integer", <<>>, int, <<>>)
SimpleString(string) == RV("SimpleString", string, 0, <<>>)
NoValue == RV("None", <<>>, 0, <<>>)

(***************************************************************************)
(* usize::to_string: the decimal digits, no sign, no leading zero.         *)
(***************************************************************************)
RECURSIVE to_string(_)
to_string(n) ==
    IF n < 10 THEN <<DIGIT0 + n>>
    ELSE to_string(n \div 10) \o <<DIGIT0 + (n % 10)>>

(***************************************************************************)
(* The encoder.  check_and_reserve only grows the capacity of the buffer   *)
(* and leaves its content alone.                                           *)
(***************************************************************************)
\* write_rn with the two bytes in the wrong order.
write_rn_swapped(buf) == buf \o <<LF, CR>>

write_rn(buf) == buf \o <<CR, LF>>

check_and_reserve(buf, amt) == buf

write_header(symb, len, buf) ==
    LET len_as_bytes == to_string(len)
        header_bytes == 1 + Len(len_as_bytes) + 2
    IN  write_rn((check_and_reserve(buf, header_bytes) \o <<symb>>) \o len_as_bytes)

write_simple_string(symb, string, buf) ==
    LET size == 1 + Len(string) + 2
    IN  write_rn((check_and_reserve(buf, size) \o <<symb>>) \o string)

RECURSIVE encode(_, _)
RECURSIVE encode_elems(_, _, _)
\* The loop of encode writing the elements last to first.
RECURSIVE encode_elems_reversed(_, _, _)
encode_elems_reversed(ary, i, buf) ==
    IF i > Len(ary) THEN buf
    ELSE encode_elems_reversed(ary, i + 1, encode(ary[Len(ary) + 1 - i], buf))

encode_elems(ary, i, buf) ==
    IF i > Len(ary) THEN buf
    ELSE encode_elems(ary, i + 1, encode(ary[i], buf))

encode(msg, buf) ==
    CASE msg.tag = "Array" ->
            encode_elems(msg.elems, 1, write_header(STAR, Len(msg.elems), buf))
      [] msg.tag = "BulkString" ->
            LET len == Len(msg.bytes)
            IN  write_rn(check_and_reserve(write_header(DOLLAR, len, buf), len + 2)
                         \o msg.bytes)
      [] msg.tag = "Error" -> write_simple_string(MINUS, msg.bytes, buf)
      [] msg.tag = "Integer" -> write_header(COLON, msg.int, buf)
      [] msg.tag = "SimpleString" -> write_simple_string(PLUS, msg.bytes, buf)

(***************************************************************************)
(* String::from_utf8_lossy: valid UTF-8 is kept, every maximal invalid     *)
(* part is replaced by U+FFFD (EF BF BD).                                  *)
(***************************************************************************)
REPLACEMENT == <<239, 191, 189>>

utf8_is_cont_byte(b) == b >= 128 /\ b <= 191

utf8_char_width(b) ==
    IF b < 128 THEN 1
    ELSE IF b >= 194 /\ b <= 223 THEN 2
    ELSE IF b >= 224 /\ b <= 239 THEN 3
    ELSE IF b >= 240 /\ b <= 244 THEN 4
    ELSE 0

safe_get(v, i) == IF i < Len(v) THEN At(v, i) ELSE 0

\* One step of the chunk scanner at position i: whether the bytes v[i..next]
\* are a valid character, and the position after them.
utf8_chunk(v, i) ==
    LET first == At(v, i)
        w == utf8_char_width(first)
        second == safe_get(v, i + 1)
        third == safe_get(v, i + 2)
        fourth == safe_get(v, i + 3)
        ok3 == \/ first = 224 /\ second >= 160 /\ second <= 191
               \/ first >= 225 /\ first <= 236 /\ utf8_is_cont_byte(second)
               \/ first = 237 /\ second >= 128 /\ second <= 159
               \/ first >= 238 /\ first <= 239 /\ utf8_is_cont_byte(second)
        ok4 == \/ first = 240 /\ second >= 144 /\ second <= 191
               \/ first >= 241 /\ first <= 243 /\ utf8_is_cont_byte(second)
               \/ first = 244 /\ second >= 128 /\ second <= 143
    IN  CASE w = 1 -> [valid |-> TRUE, next |-> i + 1]
          [] w = 2 ->
                IF utf8_is_cont_byte(second)
                THEN [valid |-> TRUE, next |-> i + 2]
                ELSE [valid |-> FALSE, next |-> i + 1]
          [] w = 3 ->
                IF ~ok3 THEN [valid |-> FALSE, next |-> i + 1]
                ELSE IF ~utf8_is_cont_byte(third) THEN [valid |-> FALSE, next |-> i + 2]
                ELSE [valid |-> TRUE, next |-> i + 3]
          [] w = 4 ->
                IF ~ok4 THEN [valid |-> FALSE, next |-> i + 1]
                ELSE IF ~utf8_is_cont_byte(third) THEN [valid |-> FALSE, next |-> i + 2]
                ELSE IF ~utf8_is_cont_byte(fourth) THEN [valid |-> FALSE, next |-> i + 3]
                ELSE [valid |-> TRUE, next |-> i + 4]
          [] OTHER -> [valid |-> FALSE, next |-> i + 1]

RECURSIVE from_utf8_lossy_loop(_, _, _)
from_utf8_lossy_loop(v, i, out) ==
    IF Len(v) <= i THEN out
    ELSE LET c == utf8_chunk(v, i)
         IN  from_utf8_lossy_loop(v, c.next,
                 out \o (IF c.valid THEN Slice(v, i, c.next) ELSE REPLACEMENT))

from_utf8_lossy(v) == from_utf8_lossy_loop(v, 0, <<>>)

(***************************************************************************)
(* str::parse::<usize>: the empty token and a token beyond usize::MAX are  *)
(* errors (the accumulator is checked at every digit).                     *)
(***************************************************************************)
RECURSIVE parse_loop(_, _, _)
parse_loop(tok, i, acc) ==
    IF i > Len(tok) THEN [ok |-> TRUE, int |-> acc]
    ELSE LET next == acc * 10 + (tok[i] - DIGIT0)
         IN  IF next > UsizeMax THEN [ok |-> FALSE, int |-> 0]
             ELSE parse_loop(tok, i + 1, next)

parse(tok) ==
    IF tok = <<>> THEN [ok |-> FALSE, int |-> 0] ELSE parse_loop(tok, 1, 0)

(***************************************************************************)
(* error::Error as resp.rs uses it: Remote(String) and                     *)
(* RESP(String, Option<RespValue>).  A formatted message is kept as its    *)
(* literal part and the text formatted into it.                            *)
(***************************************************************************)
ErrorValue(variant, message, text, value) ==
    [variant |-> variant, message |-> message, text |-> text, value |-> value]
NoError == ErrorValue("none", "", <<>>, NoValue)
Remote(string) == ErrorValue("Remote", "", string, NoValue)
RESP(message, text, value) == ErrorValue("RESP", message, text, value)

\* error::resp(message, value): a RESP error that carries the value.
error_resp(message, value) == RESP(message, <<>>, value)

(***************************************************************************)
(* Result<T, Error> for the four target types of FromResp.                 *)
(***************************************************************************)
Out(type, resp, string, int) ==
    [type |-> type, resp |-> resp, string |-> string, int |-> int]
NoOut == Out("none", NoValue, <<>>, 0)
Ok(out) == [kind |-> "Ok", out |-> out, err |-> NoError]
Err(e) == [kind |-> "Err", out |-> NoOut, err |-> e]

Targets == {"RespValue", "String", "usize", "unit"}

\* to_result that lets an Error pass as a value.
to_result_no_collapse(self) == Ok(Out("RespValue", self, <<>>, 0))

to_result(self) ==
    IF self.tag = "Error" THEN Err(Remote(self.bytes))
    ELSE Ok(Out("RespValue", self, <<>>, 0))

from_resp_int_RespValue(resp) == Ok(Out("RespValue", resp, <<>>, 0))

\* from_resp_int for String that decodes a Bulk String strictly and fails
\* on bytes that are not UTF-8.
from_resp_int_String_strict(resp) ==
    CASE resp.tag = "BulkString" ->
            IF from_utf8_lossy(resp.bytes) = resp.bytes
            THEN Ok(Out("String", NoValue, resp.bytes, 0))
            ELSE Err(error_resp("Cannot convert into a string", resp))
      [] resp.tag = "Integer" -> Ok(Out("String", NoValue, to_string(resp.int), 0))
      [] resp.tag = "SimpleString" -> Ok(Out("String", NoValue, resp.bytes, 0))
      [] OTHER -> Err(error_resp("Cannot convert into a string", resp))

from_resp_int_String(resp) ==
    CASE resp.tag = "BulkString" ->
            Ok(Out("String", NoValue, from_utf8_lossy(resp.bytes), 0))
      [] resp.tag = "Integer" -> Ok(Out("String", NoValue, to_string(resp.int), 0))
      [] resp.tag = "SimpleString" -> Ok(Out("String", NoValue, resp.bytes, 0))
      [] OTHER -> Err(error_resp("Cannot convert into a string", resp))

from_resp_int_usize(resp) ==
    CASE resp.tag = "Error" -> Err(Remote(resp.bytes))
      [] resp.tag = "Integer" -> Ok(Out("usize", NoValue, <<>>, resp.int))
      [] OTHER -> Err(error_resp("Cannot be converted into a usize", resp))

OK_TEXT == <<79, 75>>

\* from_resp_int for () that takes every Simple String as an acknowledgement.
from_resp_int_unit_any(resp) ==
    CASE resp.tag = "Error" -> Err(Remote(resp.bytes))
      [] resp.tag = "SimpleString" -> Ok(Out("unit", NoValue, <<>>, 0))
      [] OTHER -> Err(error_resp("Unexpected value", resp))

from_resp_int_unit(resp) ==
    CASE resp.tag = "Error" -> Err(Remote(resp.bytes))
      [] resp.tag = "SimpleString" ->
            IF resp.bytes = OK_TEXT THEN Ok(Out("unit", NoValue, <<>>, 0))
            ELSE Err(RESP("Unexpected value within SimpleString: {}",
                          resp.bytes, NoValue))
      [] OTHER -> Err(error_resp("Unexpected value", resp))

from_resp_int(target, resp) ==
    CASE target = "RespValue" -> from_resp_int_RespValue(resp)
      [] target = "String" -> from_resp_int_String(resp)
      [] target = "usize" -> from_resp_int_usize(resp)
      [] target = "unit" -> from_resp_int_unit(resp)

\* FromResp::from_resp, the provided method: the value handed to
\* from_resp_int (NoValue when the ? operator returned early) and the result.
from_resp(target, resp) ==
    LET r == to_result(resp)
    IN  IF r.kind = "Err" THEN [arg |-> NoValue, result |-> r]
        ELSE [arg |-> r.out.resp, result |-> from_resp_int(target, r.out.resp)]

(***************************************************************************)
(* Results.  kind is "None" (Ok(None), incomplete), "Some" (Ok(Some)),     *)
(* "Err" (a parse_error) or "Panic" (the call unwinds: expect, slice       *)
(* index, arithmetic overflow, capacity overflow).                         *)
(***************************************************************************)
ScanResult(kind, pos, tok, err) ==
    [kind |-> kind, pos |-> pos, tok |-> tok, err |-> err]
RawResult(kind, pos, int, err) ==
    [kind |-> kind, pos |-> pos, int |-> int, err |-> err]
DecodeResult(kind, pos, value, err) ==
    [kind |-> kind, pos |-> pos, value |-> value, err |-> err]

parse_error(message, byte) == <<message, byte>>

RECURSIVE scan_integer_loop(_, _, _, _)
scan_integer_loop(buf, idx, pos, at_end) ==
    IF Len(buf) <= pos THEN ScanResult("None", 0, <<>>, <<>>)
    ELSE LET val == At(buf, pos)
         IN  CASE at_end /\ val = LF ->
                     ScanResult("Some", pos + 1, Slice(buf, idx, pos - 1), <<>>)
               [] ~at_end /\ val = CR -> scan_integer_loop(buf, idx, pos + 1, TRUE)
               [] ~at_end /\ val >= DIGIT0 /\ val <= DIGIT9 ->
                     scan_integer_loop(buf, idx, pos + 1, at_end)
               [] OTHER ->
                     ScanResult("Err", 0, <<>>,
                                parse_error("Unexpected byte in size_string", val))

\* A scan that lets a length token start with a minus sign.
scan_integer_signed(buf, idx) ==
    IF idx < Len(buf) /\ At(buf, idx) = MINUS
    THEN scan_integer_loop(buf, idx, idx + 1, FALSE)
    ELSE scan_integer_loop(buf, idx, idx, FALSE)

scan_integer(buf, idx) == scan_integer_loop(buf, idx, idx, FALSE)

RECURSIVE scan_string_loop(_, _, _, _)
scan_string_loop(buf, idx, pos, at_end) ==
    IF Len(buf) <= pos THEN ScanResult("None", 0, <<>>, <<>>)
    ELSE LET val == At(buf, pos)
         IN  CASE at_end /\ val = LF ->
                     ScanResult("Some", pos + 1,
                                from_utf8_lossy(Slice(buf, idx, pos - 1)), <<>>)
               [] at_end /\ val # LF -> scan_string_loop(buf, idx, pos + 1, FALSE)
               [] ~at_end /\ val = CR -> scan_string_loop(buf, idx, pos + 1, TRUE)
               [] OTHER -> scan_string_loop(buf, idx, pos + 1, at_end)

\* A scan that takes the text up to the end of the buffer when the buffer
\* ends in CR LF, instead of stopping at the first terminator.
scan_string_greedy(buf, idx) ==
    IF Len(buf) >= idx + 2 /\ Slice(buf, Len(buf) - 2, Len(buf)) = <<CR, LF>>
    THEN ScanResult("Some", Len(buf),
                    from_utf8_lossy(Slice(buf, idx, Len(buf) - 2)), <<>>)
    ELSE ScanResult("None", 0, <<>>, <<>>)

scan_string(buf, idx) == scan_string_loop(buf, idx, idx, FALSE)

decode_raw_integer(buf, idx) ==
    LET s == scan_integer(buf, idx)
        p == parse(s.tok)
    IN  CASE s.kind = "None" -> RawResult("None", 0, 0, <<>>)
          [] s.kind = "Some" ->
                IF p.ok THEN RawResult("Some", s.pos, p.int, <<>>)
                ELSE RawResult("Panic", 0, 0, <<"Not an integer">>)
          [] s.kind = "Err" -> RawResult("Err", 0, 0, s.err)

(***************************************************************************)
(* State.                                                                  *)
(***************************************************************************)
VARIABLES
    overflow_checks, \* build profile: TRUE = arithmetic overflow panics (debug)
    wr,              \* the output buffer encode appends to
    rd,              \* the input buffer decode reads and trims
    op,              \* the last operation: "init", "encode", "deliver",
                     \* "receive", "decode", "from_resp"
    pre,             \* after a decode: rd as it was when decode was called
    last,            \* after a decode: what it returned (NoResult otherwise)
    sent,            \* the values given to encode, in order
    ends,            \* ends[i]: bytes written to wr up to the end of sent[i]
    arrived,         \* bytes appended to rd so far
    got,             \* the values decode has returned, in order
    reads,           \* number of raw appends to rd
    retry,           \* TRUE when a decode call already found the frame that
                     \* the last decode looked at incomplete
    conv             \* the last from_resp call: target, input, argument of
                     \* from_resp_int, result

vars == <<overflow_checks, wr, rd, op, pre, last, sent, ends, arrived, got,
          reads, retry, conv>>

(***************************************************************************)
(* Vec::with_capacity(size) panics with "capacity overflow" when the       *)
(* allocation size, size * size_of::<RespValue>(), exceeds isize::MAX.     *)
(* A RespValue is a discriminant and the three words of a Vec.             *)
(***************************************************************************)
RespValueWords == 4
IsizeMax == (UsizeModulus \div 2) - 1

with_capacity_ok(size) == size * RespValueWords <= IsizeMax

(***************************************************************************)
(* The frame decoder.                                                      *)
(***************************************************************************)
\* decode_bulk_string that waits for the payload only, not for its CRLF.
decode_bulk_string_no_crlf(buf, idx) ==
    LET r == decode_raw_integer(buf, idx)
        pos == r.pos
        size == r.int
        remaining == Len(buf) - pos
    IN  CASE r.kind = "None" -> DecodeResult("None", 0, NoValue, <<>>)
          [] r.kind = "Some" ->
                IF remaining < size
                THEN DecodeResult("None", 0, NoValue, <<>>)
                ELSE DecodeResult("Some", pos + size,
                                  BulkString(Slice(buf, pos, pos + size)), <<>>)
          [] OTHER -> DecodeResult(r.kind, 0, NoValue, r.err)

decode_bulk_string(buf, idx) ==
    LET r == decode_raw_integer(buf, idx)
        pos == r.pos
        size == r.int
        remaining == Len(buf) - pos
        sum == size + 2
        required_bytes == sum % UsizeModulus
        end == (pos + size) % UsizeModulus
    IN  CASE r.kind = "None" -> DecodeResult("None", 0, NoValue, <<>>)
          [] r.kind = "Some" ->
                IF sum > UsizeMax /\ overflow_checks
                THEN DecodeResult("Panic", 0, NoValue, <<"attempt to add with overflow">>)
                ELSE IF remaining < required_bytes
                THEN DecodeResult("None", 0, NoValue, <<>>)
                ELSE IF pos + size > UsizeMax /\ overflow_checks
                THEN DecodeResult("Panic", 0, NoValue, <<"attempt to add with overflow">>)
                ELSE IF end < pos \/ end > Len(buf)
                THEN DecodeResult("Panic", 0, NoValue, <<"slice index">>)
                ELSE DecodeResult("Some", pos + required_bytes,
                                  BulkString(Slice(buf, pos, end)), <<>>)
          [] OTHER -> DecodeResult(r.kind, 0, NoValue, r.err)

decode_integer(buf, idx) ==
    LET r == decode_raw_integer(buf, idx)
    IN  CASE r.kind = "None" -> DecodeResult("None", 0, NoValue, <<>>)
          [] r.kind = "Some" -> DecodeResult("Some", r.pos, Integer(r.int), <<>>)
          [] OTHER -> DecodeResult(r.kind, 0, NoValue, r.err)

\* decode_simple_string that returns the text received so far instead of
\* waiting for the terminator.
decode_simple_string_eager(buf, idx) ==
    LET r == scan_string(buf, idx)
    IN  IF r.kind = "None"
        THEN DecodeResult("Some", Len(buf),
                          SimpleString(from_utf8_lossy(Slice(buf, idx, Len(buf)))), <<>>)
        ELSE DecodeResult("Some", r.pos, SimpleString(r.tok), <<>>)

decode_simple_string(buf, idx) ==
    LET r == scan_string(buf, idx)
    IN  IF r.kind = "None" THEN DecodeResult("None", 0, NoValue, <<>>)
        ELSE DecodeResult("Some", r.pos, SimpleString(r.tok), <<>>)

\* decode_error that reports a complete error frame as a failure of the
\* stream.
decode_error_fault(buf, idx) ==
    LET r == scan_string(buf, idx)
    IN  IF r.kind = "None" THEN DecodeResult("None", 0, NoValue, <<>>)
        ELSE DecodeResult("Err", 0, NoValue, parse_error("Remote error", MINUS))

decode_error(buf, idx) ==
    LET r == scan_string(buf, idx)
    IN  IF r.kind = "None" THEN DecodeResult("None", 0, NoValue, <<>>)
        ELSE DecodeResult("Some", r.pos, Error(r.tok), <<>>)

RECURSIVE decode(_, _)
RECURSIVE decode_array_loop(_, _, _, _)

\* The for loop of decode_array: left elements still to decode at pos.
decode_array_loop(buf, pos, left, values) ==
    IF left = 0 THEN DecodeResult("Some", pos, Array(values), <<>>)
    ELSE LET e == decode(buf, pos)
         IN  IF e.kind = "Some"
             THEN decode_array_loop(buf, e.pos, left - 1, Append(values, e.value))
             ELSE DecodeResult(e.kind, 0, NoValue, e.err)

decode_array(buf, idx) ==
    LET r == decode_raw_integer(buf, idx)
    IN  CASE r.kind = "None" -> DecodeResult("None", 0, NoValue, <<>>)
          [] r.kind = "Some" ->
                IF ~with_capacity_ok(r.int)
                THEN DecodeResult("Panic", 0, NoValue, <<"capacity overflow">>)
                ELSE decode_array_loop(buf, r.pos, r.int, <<>>)
          [] OTHER -> DecodeResult(r.kind, 0, NoValue, r.err)

decode(buf, idx) ==
    IF Len(buf) <= idx THEN DecodeResult("None", 0, NoValue, <<>>)
    ELSE LET first_byte == At(buf, idx)
         IN  CASE first_byte = DOLLAR -> decode_bulk_string(buf, idx + 1)
               [] first_byte = STAR -> decode_array(buf, idx + 1)
               [] first_byte = COLON -> decode_integer(buf, idx + 1)
               [] first_byte = PLUS -> decode_simple_string(buf, idx + 1)
               [] first_byte = MINUS -> decode_error(buf, idx + 1)
               [] OTHER -> DecodeResult("Err", 0, NoValue,
                                        parse_error("Unexpected byte", first_byte))

\* split_to that drops the whole buffer.
\* A split_to that removes nothing.
split_to_none(buf, pos) == buf

split_to_all(buf, pos) == <<>>

\* BytesMut::split_to(pos): what stays in the buffer.
split_to(buf, pos) == Slice(buf, pos, Len(buf))

\* RespCodec::decode that drops the bytes it scanned when the frame is
\* incomplete.
RespCodec_decode_drain(buf) ==
    LET r == decode(buf, 0)
    IN  CASE r.kind = "Some" -> [result |-> r, buf |-> split_to(buf, r.pos)]
          [] r.kind = "None" -> [result |-> r, buf |-> <<>>]
          [] OTHER -> [result |-> r, buf |-> buf]

\* RespCodec::decode that skips the first byte of the buffer when it reports
\* a protocol violation.
RespCodec_decode_resync(buf) ==
    LET r == decode(buf, 0)
    IN  CASE r.kind = "Some" -> [result |-> r, buf |-> split_to(buf, r.pos)]
          [] r.kind = "Err" -> [result |-> r, buf |-> Slice(buf, 1, Len(buf))]
          [] OTHER -> [result |-> r, buf |-> buf]

\* Decoder::decode of RespCodec: the result and the buffer it leaves.
RespCodec_decode(buf) ==
    LET r == decode(buf, 0)
    IN  IF r.kind = "Some"
        THEN [result |-> r, buf |-> split_to(buf, r.pos)]
        ELSE [result |-> r, buf |-> buf]

(***************************************************************************)
(* The values the application encodes.  Texts hold no CR and no LF, bulk   *)
(* strings hold any byte, arrays nest; a value is kept when its frame      *)
(* fits the stream bound.                                                  *)
(***************************************************************************)
MaxStream == 12
MaxDepth == 3
MaxArrayLen == 2

TextSamples == {<<>>, <<79, 75>>, <<195, 169>>}
BulkSamples == {<<>>, <<CR, LF>>, <<255>>}
IntSamples == {0, 42, UsizeMax}

Leaves ==
    {SimpleString(t) : t \in TextSamples} \cup {Error(t) : t \in TextSamples}
    \cup {BulkString(b) : b \in BulkSamples} \cup {Integer(i) : i \in IntSamples}

SeqsUpTo(S, n) == UNION {[1..k -> S] : k \in 0..n}

RECURSIVE ValuesOfDepth(_)
ValuesOfDepth(d) ==
    IF d = 0 THEN Leaves
    ELSE LET below == ValuesOfDepth(d - 1)
         IN  below \cup {a \in {Array(s) : s \in SeqsUpTo(below, MaxArrayLen)} :
                            Len(encode(a, <<>>)) <= MaxStream}

Values == ValuesOfDepth(MaxDepth)

(***************************************************************************)
(* What the peer may put on the wire in one read when it does not keep to  *)
(* the protocol: frame headers, terminators and single bytes.              *)
(***************************************************************************)
MaxReads == 4

Chunks ==
    { <<DOLLAR, 49, CR, LF>>, <<STAR, 49, CR, LF>>, <<STAR, 50, CR, LF>>,
      <<DOLLAR>>, <<STAR>>, <<COLON>>,
      <<PLUS>>, <<MINUS>>, <<35>>, <<97>>, <<DIGIT9>>, <<DIGIT9, DIGIT9>>,
      <<CR>>, <<LF>>, <<CR, LF>> }

NoResult == DecodeResult("Init", 0, NoValue, <<>>)
NoConv == [target |-> "none", input |-> NoValue, arg |-> NoValue,
           result |-> [kind |-> "none", out |-> NoOut, err |-> NoError]]

Init ==
    /\ overflow_checks \in BOOLEAN
    /\ wr = <<>>
    /\ rd = <<>>
    /\ op = "init"
    /\ pre = <<>>
    /\ last = NoResult
    /\ sent = <<>>
    /\ ends = <<>>
    /\ arrived = 0
    /\ got = <<>>
    /\ reads = 0
    /\ retry = FALSE
    /\ conv = NoConv

\* A panic unwinds the task that drives the codec: nothing runs after it.
Running == last.kind # "Panic"

\* retry once the frame of the last decode is behind: a returned value ends
\* the frame, anything else leaves it at the front of rd.
RetryKept == IF last.kind = "Some" THEN FALSE ELSE retry

\* An encode that writes into the buffer the decoder reads: one buffer shared
\* by both directions.
Encode_into_input(msg) ==
    /\ Running
    /\ Len(encode(msg, rd)) <= MaxStream
    /\ rd' = encode(msg, rd)
    /\ sent' = Append(sent, msg)
    /\ ends' = Append(ends, arrived + Len(wr) + Len(encode(msg, <<>>)))
    /\ op' = "encode"
    /\ pre' = <<>> /\ last' = NoResult
    /\ retry' = RetryKept
    /\ UNCHANGED <<overflow_checks, wr, arrived, got, reads, conv>>

\* Encoder::encode(msg, wr) by the application.
Encode(msg) ==
    /\ Running
    /\ arrived + Len(encode(msg, wr)) <= MaxStream
    /\ wr' = encode(msg, wr)
    /\ sent' = Append(sent, msg)
    /\ ends' = Append(ends, arrived + Len(wr'))
    /\ op' = "encode"
    /\ pre' = <<>> /\ last' = NoResult
    /\ retry' = RetryKept
    /\ UNCHANGED <<overflow_checks, rd, arrived, got, reads, conv>>

\* The transport carries the first n bytes of the output buffer to the
\* input buffer of the decoding side.
Deliver(n) ==
    /\ Running
    /\ n >= 1 /\ n <= Len(wr)
    /\ rd' = rd \o SubSeq(wr, 1, n)
    /\ wr' = SubSeq(wr, n + 1, Len(wr))
    /\ arrived' = arrived + n
    /\ op' = "deliver"
    /\ pre' = <<>> /\ last' = NoResult
    /\ retry' = RetryKept
    /\ UNCHANGED <<overflow_checks, sent, ends, got, reads, conv>>

\* The transport appends bytes read from a peer to the input buffer.
Receive(chunk) ==
    /\ Running
    /\ reads < MaxReads
    /\ rd' = rd \o chunk
    /\ arrived' = arrived + Len(chunk)
    /\ reads' = reads + 1
    /\ op' = "receive"
    /\ pre' = <<>> /\ last' = NoResult
    /\ retry' = RetryKept
    /\ UNCHANGED <<overflow_checks, wr, sent, ends, got, conv>>

\* Decoder::decode(rd) by the driver.
Decode ==
    /\ Running
    /\ LET d == RespCodec_decode(rd)
       IN  /\ rd' = d.buf
           /\ last' = d.result
           /\ got' = IF d.result.kind = "Some" THEN Append(got, d.result.value)
                     ELSE got
           /\ retry' = IF d.result.kind = "None" /\ rd # <<>> THEN TRUE
                       ELSE RetryKept
    /\ pre' = rd
    /\ op' = "decode"
    /\ UNCHANGED <<overflow_checks, wr, sent, ends, arrived, reads, conv>>

Next == (\E msg \in Values : Encode(msg)) \/ (\E n \in 1..MaxStream : Deliver(n)) \/ Decode

Spec == Init /\ [][Next]_vars

NextRaw == (\E chunk \in Chunks : Receive(chunk)) \/ Decode

SpecRaw == Init /\ [][NextRaw]_vars

\* The application extracts a typed result from a value.
FromResp(target, resp) ==
    /\ Running
    /\ LET r == from_resp(target, resp)
       IN  conv' = [target |-> target, input |-> resp, arg |-> r.arg,
                    result |-> r.result]
    /\ op' = "from_resp"
    /\ pre' = <<>> /\ last' = NoResult
    /\ retry' = RetryKept
    /\ UNCHANGED <<overflow_checks, wr, rd, sent, ends, arrived, got, reads>>

NextConv == \E target \in Targets : \E resp \in Values : FromResp(target, resp)

SpecConv == Init /\ [][NextConv]_vars

(***************************************************************************)
(* Claims.  After a decode, pre is the buffer the call was given; its      *)
(* first byte is byte number arrived - Len(pre) of the stream.             *)
(***************************************************************************)
Tags == {DOLLAR, STAR, COLON, PLUS, MINUS}

\* Stream offset where frame i of the encoded stream starts, and its length.
FrameStart(i) == IF i = 1 THEN 0 ELSE ends[i - 1]
FrameLen(i) == ends[i] - FrameStart(i)
PreStart == arrived - Len(pre)

\* C1: Round trip: when the input buffer holds exactly the encoding of one
\* value v written into an empty buffer, one decode returns a value equal
\* to v and leaves the buffer empty.
C1_RoundTrip ==
    (op = "decode" /\ Len(sent) = 1 /\ Len(pre) = ends[1])
        => /\ last.kind = "Some"
           /\ last.value = sent[1]
           /\ rd = <<>>

C1_Witness ==
    /\ op = "decode" /\ Len(sent) = 1 /\ Len(pre) = ends[1]
    /\ sent[1].tag = "Array" /\ Len(sent[1].elems) = 2
    /\ sent[1].elems[1].tag = "Array"
    /\ last.value = sent[1]

\* C2: Partial delivery: when the buffer starts at the first byte of frame i
\* and holds a non-empty proper prefix of it, decode returns incomplete and
\* leaves the buffer as it was; once the rest of the frame has arrived,
\* decode returns the value of frame i and removes exactly the length of
\* the frame, whether or not the frame was found incomplete before.
C2_PartialDelivery ==
    op = "decode" =>
        \A i \in 1..Len(sent) :
            PreStart = FrameStart(i) =>
                /\ (FrameStart(i) < arrived /\ arrived < ends[i])
                       => (last.kind = "None" /\ rd = pre)
                /\ arrived = ends[i]
                       => /\ last.kind = "Some"
                          /\ last.value = sent[i]
                          /\ Len(pre) - Len(rd) = FrameLen(i)

C2_Witness ==
    /\ op = "decode" /\ retry /\ last.kind = "Some"
    /\ Len(sent) = 1 /\ arrived = ends[1] /\ PreStart = 0
    /\ last.value = sent[1] /\ sent[1].tag = "BulkString"
    /\ rd = <<>>

\* C3: A bulk string frame needs its CRLF: when the buffer holds the length
\* token of a bulk string, n payload bytes and two further bytes that are
\* not CR LF, decode reports a protocol violation and consumes nothing.
C3_BulkStringNeedsCRLF ==
    (/\ op = "decode" /\ pre # <<>> /\ At(pre, 0) = DOLLAR
     /\ LET r == decode_raw_integer(pre, 1)
        IN  /\ r.kind = "Some"
            /\ Len(pre) >= r.pos + r.int + 2
            /\ Slice(pre, r.pos + r.int, r.pos + r.int + 2) # <<CR, LF>>)
        => (last.kind = "Err" /\ rd = pre)

\* C4: Decode is total: every decode call returns a value, incomplete or a
\* protocol violation, and never aborts.
C4_DecodeTotal ==
    op = "decode" => last.kind \in {"Some", "None", "Err"}

\* C5: Incomplete consumes nothing: whenever decode returns incomplete the
\* buffer is byte for byte what it was before the call and no value is
\* surfaced.
C5_IncompleteConsumesNothing ==
    (op = "decode" /\ last.kind = "None")
        => (rd = pre /\ last.value = NoValue /\ last.pos = 0)

\* Incomplete inside the second element of an array whose first element
\* was parsed.
C5_Witness ==
    /\ op = "decode" /\ last.kind = "None"
    /\ Len(pre) >= 8 /\ Slice(pre, 0, 4) = <<STAR, 50, CR, LF>>
    /\ decode(pre, 4).kind = "Some"
    /\ decode(pre, 4).pos < Len(pre)
    /\ rd = pre

\* C6: Multi-frame buffers are drained one frame per call in order: when the
\* buffer starts at a frame boundary and holds only whole frames, decode
\* returns the value of the frame at the front, removes exactly its bytes,
\* leaves the later frames untouched, and the values returned so far are
\* the values sent, in order; on the empty buffer it returns incomplete.
C6_OneFramePerCall ==
    (op = "decode" /\ (arrived = 0 \/ \E j \in 1..Len(sent) : arrived = ends[j]))
        => /\ pre = <<>> => last.kind = "None"
           /\ \A i \in 1..Len(sent) :
                 (pre # <<>> /\ PreStart = FrameStart(i))
                     => /\ last.kind = "Some"
                        /\ last.value = sent[i]
                        /\ rd = Slice(pre, FrameLen(i), Len(pre))
                        /\ got = SubSeq(sent, 1, i)

C6_Witness ==
    /\ op = "decode" /\ Len(sent) >= 2 /\ Len(pre) = ends[2]
    /\ last.kind = "Some" /\ got = <<sent[1]>>
    /\ Len(rd) = FrameLen(2)

\* Position (0-based) of the first CR LF pair at or after position from, or
\* Len(buf) when there is none.
FirstCRLF(buf, from) ==
    LET ps == {q \in from..(Len(buf) - 2) : At(buf, q) = CR /\ At(buf, q + 1) = LF}
    IN  IF ps = {} THEN Len(buf) ELSE CHOOSE q \in ps : \A o \in ps : q <= o

\* C7: Simple String and Error frames end at the first CRLF: when the buffer
\* starts with + or - and holds a CR LF pair after the tag, decode returns a
\* value whose text is the bytes between the tag and the first pair and
\* removes the tag, those bytes and the pair.
C7_TextEndsAtFirstCRLF ==
    (/\ op = "decode" /\ pre # <<>> /\ At(pre, 0) \in {PLUS, MINUS}
     /\ FirstCRLF(pre, 1) < Len(pre))
        => /\ last.kind = "Some"
           /\ last.value.tag = (IF At(pre, 0) = PLUS THEN "SimpleString" ELSE "Error")
           /\ last.value.bytes = Slice(pre, 1, FirstCRLF(pre, 1))
           /\ Len(pre) - Len(rd) = FirstCRLF(pre, 1) + 2

\* The positions of buf where a frame is expected when one is expected at
\* idx: idx itself and, after an array header, the start of each element
\* that follows complete elements.
RECURSIVE FramePositions(_, _)
RECURSIVE ElementPositions(_, _, _)
ElementPositions(buf, pos, left) ==
    IF left = 0 THEN {}
    ELSE FramePositions(buf, pos) \cup
         (LET e == decode(buf, pos)
          IN  IF e.kind = "Some" THEN ElementPositions(buf, e.pos, left - 1) ELSE {})

FramePositions(buf, idx) ==
    {idx} \cup
    (IF idx < Len(buf) /\ At(buf, idx) = STAR
     THEN LET r == decode_raw_integer(buf, idx + 1)
          IN  IF r.kind = "Some" THEN ElementPositions(buf, r.pos, r.int) ELSE {}
     ELSE {})

\* C8: Unknown tag is fatal: when a byte that is not a tag stands at a
\* position where a frame is expected (offset 0 or an element of a possibly
\* nested array), decode returns a protocol violation and leaves the buffer
\* unchanged.
C8_UnknownTagFatal ==
    op = "decode" =>
        \A q \in FramePositions(pre, 0) :
            (q < Len(pre) /\ At(pre, q) \notin Tags)
                => (last.kind = "Err" /\ rd = pre)

\* C9: Error collapse: from_resp applied to Error(t) returns the remote
\* failure Remote(t) for every target type, and from_resp never hands an
\* Error value to from_resp_int.
C9_ErrorCollapse ==
    op = "from_resp" =>
        /\ conv.arg.tag # "Error"
        /\ conv.input.tag = "Error"
               => /\ conv.result = Err(Remote(conv.input.bytes))
                  /\ conv.arg = NoValue

C9_Witness ==
    /\ op = "from_resp" /\ conv.input = Error(OK_TEXT) /\ conv.target = "String"
    /\ conv.result.err.variant = "Remote" /\ conv.result.err.text = OK_TEXT

\* The shapes that do not convert to the target type.
Mismatch(target, resp) ==
    \/ target = "String" /\ resp.tag = "Array"
    \/ target = "usize" /\ resp.tag # "Integer"
    \/ target = "unit" /\ ~(resp.tag = "SimpleString" /\ resp.bytes = OK_TEXT)

\* C10: Every conversion failure carries the offending value: for a value
\* that is not an Error and whose shape mismatches the target type,
\* from_resp returns a RESP error whose value field holds the input.
C10_ConversionFailureCarriesValue ==
    (op = "from_resp" /\ conv.input.tag # "Error"
     /\ Mismatch(conv.target, conv.input))
        => /\ conv.result.kind = "Err"
           /\ conv.result.err.variant = "RESP"
           /\ conv.result.err.value = conv.input

\* C11: Acknowledgement semantics: extracting the unit type succeeds if and
\* only if the value is the Simple String "OK"; every other Simple String
\* and every Bulk String, Integer and Array is a conversion failure, and an
\* Error is a remote failure.
C11_Acknowledgement ==
    (op = "from_resp" /\ conv.target = "unit")
        => /\ conv.result.kind = "Ok" <=> conv.input = SimpleString(OK_TEXT)
           /\ conv.result.kind = "Ok" => conv.result.out.type = "unit"
           /\ (conv.input.tag # "Error" /\ conv.input # SimpleString(OK_TEXT))
                  => (conv.result.kind = "Err" /\ conv.result.err.variant = "RESP")
           /\ conv.input.tag = "Error"
                  => (conv.result.kind = "Err" /\ conv.result.err.variant = "Remote")

C11_Witness ==
    /\ op = "from_resp" /\ conv.target = "unit"
    /\ conv.input.tag = "SimpleString" /\ conv.input.bytes # OK_TEXT
    /\ conv.result.err.variant = "RESP"

\* The token is the decimal text of n: digits only, no leading zero, value n.
IsDecimalOf(tok, n) ==
    /\ tok # <<>>
    /\ \A k \in 1..Len(tok) : tok[k] >= DIGIT0 /\ tok[k] <= DIGIT9
    /\ (Len(tok) > 1 => tok[1] # DIGIT0)
    /\ parse(tok).ok /\ parse(tok).int = n

\* C12: Text extraction never fails on a Bulk String, gives the decimal text
\* of an Integer and the text of a Simple String unchanged, is a conversion
\* failure for an Array and a remote failure for an Error; natural-number
\* extraction succeeds only for Integer(n), returning n, and every other
\* shape that is not an Error is a conversion failure.
C12_TextAndNumberExtraction ==
    op = "from_resp" =>
        /\ conv.target = "String" =>
              /\ conv.input.tag = "BulkString"
                     => (conv.result.kind = "Ok" /\ conv.result.out.type = "String")
              /\ conv.input.tag = "Integer"
                     => /\ conv.result.kind = "Ok"
                        /\ IsDecimalOf(conv.result.out.string, conv.input.int)
              /\ conv.input.tag = "SimpleString"
                     => /\ conv.result.kind = "Ok"
                        /\ conv.result.out.string = conv.input.bytes
              /\ conv.input.tag = "Array"
                     => (conv.result.kind = "Err" /\ conv.result.err.variant = "RESP")
              /\ conv.input.tag = "Error"
                     => (conv.result.kind = "Err" /\ conv.result.err.variant = "Remote")
        /\ conv.target = "usize" =>
              /\ conv.result.kind = "Ok" <=> conv.input.tag = "Integer"
              /\ conv.input.tag = "Integer"
                     => (conv.result.out.type = "usize"
                         /\ conv.result.out.int = conv.input.int)
              /\ conv.input.tag \notin {"Integer", "Error"}
                     => (conv.result.kind = "Err" /\ conv.result.err.variant = "RESP")

\* A Bulk String that is not UTF-8 still converts to text.
C12_Witness ==
    /\ op = "from_resp" /\ conv.target = "String"
    /\ conv.input = BulkString(<<255>>)
    /\ conv.result.kind = "Ok" /\ conv.result.out.string = REPLACEMENT

\* The wire form of a value as the protocol table gives it.
RECURSIVE Wire(_)
RECURSIVE WireAll(_)
WireAll(elems) ==
    IF elems = <<>> THEN <<>> ELSE Wire(Head(elems)) \o WireAll(Tail(elems))

Wire(v) ==
    CASE v.tag = "Array" ->
            <<STAR>> \o to_string(Len(v.elems)) \o <<CR, LF>> \o WireAll(v.elems)
      [] v.tag = "BulkString" ->
            <<DOLLAR>> \o to_string(Len(v.bytes)) \o <<CR, LF>> \o v.bytes \o <<CR, LF>>
      [] v.tag = "Integer" -> <<COLON>> \o to_string(v.int) \o <<CR, LF>>
      [] v.tag = "SimpleString" -> <<PLUS>> \o v.bytes \o <<CR, LF>>
      [] v.tag = "Error" -> <<MINUS>> \o v.bytes \o <<CR, LF>>

\* C13: Encode is append-only and byte-exact: an encode of v into a buffer
\* holding P leaves P followed by the wire form of v, whatever P is.
C13_EncodeAppendsWire ==
    [][op' = "encode" => wr' = wr \o Wire(sent'[Len(sent')])]_vars

\* Two values encoded into one buffer, the second after the first.
C13_Witness ==
    /\ op = "encode" /\ Len(sent) = 2 /\ arrived = 0
    /\ sent[1].tag = "SimpleString" /\ sent[2].tag = "Array" /\ sent[2].elems # <<>>
    /\ wr = Wire(sent[1]) \o Wire(sent[2])

(***************************************************************************)
(* The application on top of the codec: it encodes requests, the transport *)
(* flushes the whole output buffer, the driver decodes and the application *)
(* extracts a typed result from the value decode just returned.            *)
(***************************************************************************)
Flush == Deliver(Len(wr))

Extract(target) ==
    /\ op = "decode" /\ last.kind = "Some"
    /\ FromResp(target, last.value)

NextApp ==
    \/ \E msg \in Values : Encode(msg)
    \/ Flush
    \/ Decode
    \/ \E target \in Targets : Extract(target)

SpecApp == Init /\ [][NextApp]_vars

RECURSIVE ContainsError(_)
ContainsError(v) ==
    \/ v.tag = "Error"
    \/ v.tag = "Array" /\ \E k \in 1..Len(v.elems) : ContainsError(v.elems[k])

\* C14: A remote error is a decoded value, not a stream fault: a whole frame
\* that is an Error, or an array holding one, decodes to that value and only
\* its bytes are consumed; the failure Remote(text) is what from_resp makes
\* of an Error value, and of nothing else.
C14_RemoteErrorIsAValue ==
    /\ op = "decode" =>
          \A i \in 1..Len(sent) :
              (/\ pre # <<>> /\ PreStart = FrameStart(i) /\ arrived >= ends[i]
               /\ ContainsError(sent[i]))
                  => /\ last.kind = "Some"
                     /\ last.value = sent[i]
                     /\ rd = Slice(pre, FrameLen(i), Len(pre))
    /\ op = "from_resp" =>
          /\ conv.result.err.variant = "Remote" <=> conv.input.tag = "Error"
          /\ conv.input.tag = "Error" => conv.result.err.text = conv.input.bytes

\* An Error frame was decoded and extracted as a remote failure, and the
\* frame behind it decoded afterwards.
C14_Witness ==
    /\ op = "decode" /\ last.kind = "Some"
    /\ Len(sent) = 2 /\ got = sent /\ sent[1].tag = "Error"
    /\ conv.input = sent[1] /\ conv.target = "String"
    /\ conv.result.err.variant = "Remote"

\* C15: Encode and decode are independent: an encode leaves the input side
\* (buffer, values returned) alone and a decode leaves the output side
\* alone, so under every interleaving the output buffer holds what the
\* encodes alone produce (less what the transport took) and the input
\* buffer holds the part of that stream that arrived and was not consumed.
C15_EncodeDecodeIndependent ==
    /\ [](LET stream == WireAll(sent)
          IN  /\ wr = Slice(stream, arrived, Len(stream))
              /\ rd = Slice(stream, arrived - Len(rd), arrived))
    /\ [][/\ op' = "encode" => (rd' = rd /\ got' = got /\ arrived' = arrived)
          /\ op' = "decode" => (wr' = wr /\ sent' = sent /\ ends' = ends)]_vars

\* A decode returns the first value while the second one, encoded in the
\* meantime, waits in the output buffer.
C15_Witness ==
    /\ op = "decode" /\ last.kind = "Some" /\ retry
    /\ Len(sent) = 2 /\ got = <<sent[1]>>
    /\ wr = Wire(sent[2]) /\ rd = <<>>

\* The length token that starts at position idx of buf, read left to right:
\* where its digits stop, and what the byte there (and the one after a CR)
\* makes of it.
IsDigit(b) == b >= DIGIT0 /\ b <= DIGIT9

TokenStop(buf, idx) ==
    CHOOSE k \in idx..Len(buf) :
        /\ k = Len(buf) \/ ~IsDigit(At(buf, k))
        /\ \A j \in idx..(k - 1) : IsDigit(At(buf, j))

TokenClass(buf, idx) ==
    LET k == TokenStop(buf, idx)
    IN  CASE k = Len(buf) -> "incomplete"
          [] k < Len(buf) /\ At(buf, k) # CR -> "fatal"
          [] k < Len(buf) /\ At(buf, k) = CR /\ k + 1 = Len(buf) -> "incomplete"
          [] k + 1 < Len(buf) /\ At(buf, k) = CR /\ At(buf, k + 1) # LF -> "fatal"
          [] OTHER -> "complete"

\* C16: In a `$`, `*` or `:` frame, a byte that is neither digit nor CR
\* before the CR (a minus sign, a bare LF), or a byte other than LF right
\* after the CR, is a fatal protocol violation whatever follows; the buffer
\* ending before the LF (also right after the CR) is incomplete; the buffer
\* is unchanged in both cases.  The same classification holds for the scan
\* from every position of the buffer.
C16_LengthTokenScan ==
    op = "decode" =>
        /\ \A idx \in 0..Len(pre) :
              LET c == TokenClass(pre, idx)
                  s == scan_integer(pre, idx)
              IN  /\ c = "fatal" => s.kind = "Err"
                  /\ c = "incomplete" => s.kind = "None"
                  /\ c = "complete" => s.kind = "Some" /\ s.pos = TokenStop(pre, idx) + 2
        /\ (pre # <<>> /\ At(pre, 0) \in {DOLLAR, STAR, COLON}) =>
              /\ TokenClass(pre, 1) = "fatal" =>
                    /\ last.kind = "Err"
                    /\ last.err[1] = "Unexpected byte in size_string"
                    /\ rd = pre
              /\ TokenClass(pre, 1) = "incomplete" =>
                    last.kind = "None" /\ rd = pre

\* `$-9\r\n` is refused although the frame is terminated.
C16_Witness ==
    /\ op = "decode"
    /\ pre = <<DOLLAR, MINUS, DIGIT9, CR, LF>>
    /\ last.kind = "Err" /\ rd = pre

\* Number of frames of the encoded stream that have arrived whole.
WholeFrames == Cardinality({i \in 1..Len(sent) : ends[i] <= arrived})

\* C17: In-order delivery under arbitrary chunking: however the transport
\* cuts the encodings of v1..vk into chunks, no decode reports a protocol
\* violation or aborts, the values returned so far are always v1..vj in
\* order for some j, a decode that returns incomplete has returned every
\* frame that arrived whole, and when the whole stream has arrived and
\* decode returns incomplete all k values were returned and the buffer is
\* empty.
C17_InOrderDelivery ==
    /\ last.kind \notin {"Err", "Panic"}
    /\ Len(got) <= Len(sent)
    /\ got = SubSeq(sent, 1, Len(got))
    /\ (op = "decode" /\ last.kind = "None") =>
          /\ Len(got) = WholeFrames
          /\ wr = <<>> => (got = sent /\ rd = <<>>)

\* Three values sent, the whole stream arrived, all three returned in order
\* and the buffer drained.
C17_Witness ==
    /\ op = "decode" /\ last.kind = "None"
    /\ wr = <<>> /\ rd = <<>>
    /\ Len(sent) = 3 /\ got = sent
    /\ sent[1] # sent[2] /\ sent[2] # sent[3]

\* C18: No over-read: when decode on a buffer B returns a value and removes
\* n bytes, decode on B followed by any bytes X returns the same value,
\* removes the same n bytes and leaves the rest of B followed by X.  Here
\* the buffer decode was called on is cut at every position into B and X.
C18_NoOverRead ==
    op = "decode" =>
        \A k \in 0..Len(pre) :
            LET d == RespCodec_decode(Slice(pre, 0, k))
            IN  d.result.kind = "Some" =>
                    /\ last.kind = "Some"
                    /\ last.value = d.result.value
                    /\ last.pos = d.result.pos
                    /\ rd = d.buf \o Slice(pre, k, Len(pre))

\* `$1\r\na\r\n` followed by one more byte: the bulk string is returned
\* and the byte stays.
C18_Witness ==
    /\ op = "decode" /\ last.kind = "Some"
    /\ pre = <<DOLLAR, 49, CR, LF, 97, CR, LF, 35>>
    /\ last.value = BulkString(<<97>>)
    /\ rd = <<35>>

\* C19: A protocol violation is permanent: a decode that reports one leaves
\* the buffer unchanged; from then on no step removes bytes from the buffer
\* and the next decode reports a violation again; and whatever was appended
\* to a buffer on which decode reports a violation, decode on the longer
\* buffer reports the same violation, never incomplete and never a value.
C19_ViolationIsPermanent ==
    /\ []((op = "decode" /\ last.kind = "Err") => rd = pre)
    /\ [](op = "decode" =>
            \A k \in 0..Len(pre) :
                LET d == RespCodec_decode(Slice(pre, 0, k))
                IN  d.result.kind = "Err" =>
                        /\ last.kind = "Err"
                        /\ last.err = d.result.err
                        /\ rd = pre)
    /\ [][(op = "decode" /\ last.kind = "Err") =>
              /\ Len(rd') >= Len(rd) /\ Slice(rd', 0, Len(rd)) = rd
              /\ op' = "decode" => (last'.kind = "Err" /\ rd' = rd)]_vars

\* A byte that starts no frame, then a whole integer frame behind it: still
\* a violation, nothing skipped.
C19_Witness ==
    /\ op = "decode" /\ last.kind = "Err"
    /\ pre = <<35, COLON, DIGIT9, CR, LF>>
    /\ rd = pre

\* C20: Every success makes progress and every scan stays inside the
\* buffer: a scan or a decode that starts at position idx and succeeds ends
\* at a position beyond idx and not beyond the buffer length, and when
\* decode returns a value the number n of bytes removed from the buffer
\* front is the frame's end position and satisfies 3 <= n <= len(buffer).
C20_DecodeProgress ==
    op = "decode" =>
        /\ \A idx \in 0..Len(pre) :
              LET i == scan_integer(pre, idx)
                  s == scan_string(pre, idx)
                  d == decode(pre, idx)
              IN  /\ i.kind = "Some" => (idx + 2 <= i.pos /\ i.pos <= Len(pre))
                  /\ s.kind = "Some" => (idx + 2 <= s.pos /\ s.pos <= Len(pre))
                  /\ d.kind = "Some" => (idx + 3 <= d.pos /\ d.pos <= Len(pre))
        /\ Len(rd) <= Len(pre)
        /\ rd = Slice(pre, Len(pre) - Len(rd), Len(pre))
        /\ last.kind = "Some" =>
              LET n == Len(pre) - Len(rd)
              IN  n = last.pos /\ 3 <= n /\ n <= Len(pre)
        /\ last.kind # "Some" => rd = pre

\* The shortest frame, `+\r\n`, with a byte behind it: three bytes removed.
C20_Witness ==
    /\ op = "decode" /\ last.kind = "Some"
    /\ pre = <<PLUS, CR, LF, 97>>
    /\ rd = <<97>>
    /\ last.pos = 3

====
